---- MODULE Spec2Model ----
(***************************************************************************)
(* FuzzStorm tooling: plot_coverage_fast.py (coverage-over-time plotter)   *)
(* and seed.py (seed deriver).                                             *)
(*                                                                         *)
(* Text is modelled as sequences of one-character strings, so that the     *)
(* glob, the regular expression, str.split, int() and str.replace are      *)
(* computed character by character as Python computes them.  Elapsed time  *)
(* is kept in milliseconds: time_sec = time_ms / 1000.0, so                *)
(* "adjusted_time < 1" is "time_ms + 1000 * time_shift < 1000".            *)
(***************************************************************************)
EXTENDS Integers, Sequences, FiniteSets, TLC

VARIABLES
    \* ---- plot_coverage_fast.py ----
    pc,             \* position of the tool that is running
    runs,           \* main: args.runs.split(":")
    time_shifts,    \* main: dict run -> shift (seconds)
    fs,             \* environment: run -> its default/queue directory
    run_idx,        \* main: position of the for loop over runs
    time_shift,     \* main: time_shifts[run] of the current run
    attempted,      \* history: the runs whose try block was entered
    runs_data,      \* main: dict run -> samples
    queue_files,    \* parse_queue_files: list of (time_ms, path)
    profraw_files,  \* get_cumulative_coverage: number of *.profraw files
    sample_points,  \* get_cumulative_coverage: the checkpoint list
    sample_pos,     \* get_cumulative_coverage: position in sample_points
    merged_cov,     \* environment: branches covered by the merged prefix
    reports,        \* history: result.stdout of each llvm-cov report
    results,        \* get_cumulative_coverage: the samples
    tempfiles,      \* disk: the indices i with temp_<i>.profdata present
    report_text,    \* parse_coverage_report: its argument
    parse_ret,      \* parse_coverage_report: its return value
    \* ---- seed.py ----
    corpus,         \* environment: entries of QUEUE_DIR
    paths,          \* main: sorted(QUEUE_DIR.iterdir())
    path_idx,       \* main: position of the for loop over paths
    proc,           \* run_encoder: the completed encoder process
    out_files,      \* disk: OUTPUT_DIR, file name -> text
    write_log,      \* history: the output names written, in order
    total_written,  \* main: counter of written entries
    file_written    \* main: counter of written files

covData == <<runs, time_shifts, fs, run_idx, time_shift, attempted,
             runs_data, queue_files, profraw_files, sample_points,
             sample_pos, merged_cov, reports, results, tempfiles>>
parseVars == <<report_text, parse_ret>>
seedVars == <<corpus, paths, path_idx, proc, out_files, write_log,
              total_written, file_written>>
vars == <<pc, covData, parseVars, seedVars>>

----------------------------------------------------------------------------
(* Characters and text *)

Digits == {"0", "1", "2", "3", "4", "5", "6", "7", "8", "9"}

DigitVal ==
    ("0" :> 0) @@ ("1" :> 1) @@ ("2" :> 2) @@ ("3" :> 3) @@ ("4" :> 4) @@
    ("5" :> 5) @@ ("6" :> 6) @@ ("7" :> 7) @@ ("8" :> 8) @@ ("9" :> 9)

\* ord() of the characters that occur in the modelled names
CharCode ==
    ("," :> 44) @@ ("." :> 46) @@ ("0" :> 48) @@ ("1" :> 49) @@ ("2" :> 50) @@
    ("3" :> 51) @@ ("4" :> 52) @@ ("5" :> 53) @@ ("6" :> 54) @@ ("7" :> 55) @@
    ("8" :> 56) @@ ("9" :> 57) @@ (":" :> 58) @@ ("_" :> 95) @@ ("a" :> 97) @@
    ("d" :> 100) @@ ("e" :> 101) @@ ("i" :> 105) @@ ("m" :> 109) @@
    ("s" :> 115) @@ ("t" :> 116) @@ ("x" :> 120)

Whitespace == {" ", "\n", "\t"}

RECURSIVE Concat(_)
Concat(ss) == IF ss = <<>> THEN <<>> ELSE Head(ss) \o Concat(Tail(ss))

\* sep.join(parts)
RECURSIVE Join(_, _)
Join(parts, sep) ==
    IF parts = <<>> THEN <<>>
    ELSE IF Len(parts) = 1 THEN parts[1]
    ELSE parts[1] \o sep \o Join(Tail(parts), sep)

Front(s) == SubSeq(s, 1, Len(s) - 1)

StartsWith(s, prefix) ==
    /\ Len(s) >= Len(prefix)
    /\ SubSeq(s, 1, Len(prefix)) = prefix

\* str < str: lexicographic by character code
LexLess(a, b) ==
    \/ /\ Len(a) < Len(b)
       /\ SubSeq(b, 1, Len(a)) = a
    \/ \E i \in 1..Len(a) :
          /\ i <= Len(b)
          /\ SubSeq(a, 1, i - 1) = SubSeq(b, 1, i - 1)
          /\ CharCode[a[i]] < CharCode[b[i]]

\* sorted(S) for a set of names
RECURSIVE SortedNames(_)
SortedNames(S) ==
    IF S = {} THEN <<>>
    ELSE LET m == CHOOSE x \in S : \A y \in S \ {x} : LexLess(x, y)
         IN  <<m>> \o SortedNames(S \ {m})

\* int(s) for a run of decimal digits
RECURSIVE DigitsToInt(_)
DigitsToInt(s) ==
    IF s = <<>> THEN 0 ELSE DigitsToInt(Front(s)) * 10 + DigitVal[s[Len(s)]]

\* str(n) for n >= 0
RECURSIVE IntToText(_)
IntToText(n) ==
    LET d == CHOOSE c \in Digits : DigitVal[c] = n % 10
    IN  IF n < 10 THEN <<d>> ELSE IntToText(n \div 10) \o <<d>>

----------------------------------------------------------------------------
(* plot_coverage_fast.py: parse_queue_files *)

IdPrefix == <<"i", "d", ":">>
TimeToken == <<"t", "i", "m", "e", ":">>

\* the regular expression time:(\d+) matches name at position p
TimePatternAt(name, p) ==
    /\ p + Len(TimeToken) <= Len(name)
    /\ SubSeq(name, p, p + Len(TimeToken) - 1) = TimeToken
    /\ name[p + Len(TimeToken)] \in Digits

\* re.match: the pattern anchored at the start of the name
TimePatternMatch(name) == IF TimePatternAt(name, 1) THEN 1 ELSE 0

\* time_pattern.search(name): the leftmost match position, 0 for no match
TimePatternSearch(name) ==
    IF \E p \in 1..Len(name) : TimePatternAt(name, p)
    THEN CHOOSE p \in 1..Len(name) :
            /\ TimePatternAt(name, p)
            /\ \A q \in 1..(p - 1) : ~TimePatternAt(name, q)
    ELSE 0

\* match.group(1): the longest run of digits after the token
TimeGroup(name, p) ==
    LET from == p + Len(TimeToken)
        to == CHOOSE e \in from..Len(name) :
                 /\ \A k \in from..e : name[k] \in Digits
                 /\ e = Len(name) \/ name[e + 1] \notin Digits
    IN  SubSeq(name, from, to)

\* queue_path.glob("id:*"), sorted
GlobId(entries) == SortedNames({n \in entries : StartsWith(n, IdPrefix)})

\* the for loop of lines 20-25 over the globbed names
RECURSIVE CollectQueue(_)
CollectQueue(names) ==
    IF names = <<>> THEN <<>>
    ELSE LET name == Head(names)
             p == TimePatternSearch(name)
         IN  IF p # 0
             THEN <<[time |-> DigitsToInt(TimeGroup(name, p)), path |-> name]>>
                  \o CollectQueue(Tail(names))
             ELSE CollectQueue(Tail(names))

\* list.sort(key=lambda x: x[0]): stable, ascending by time
RECURSIVE InsertByTime(_, _)
InsertByTime(sorted, x) ==
    IF sorted = <<>> THEN <<x>>
    ELSE IF sorted[Len(sorted)].time <= x.time THEN Append(sorted, x)
    ELSE Append(InsertByTime(Front(sorted), x), sorted[Len(sorted)])

RECURSIVE SortByTime(_)
SortByTime(list) ==
    IF list = <<>> THEN <<>>
    ELSE InsertByTime(SortByTime(Front(list)), list[Len(list)])

\* the list left unsorted (line 27 missing)
UnsortedQueue(entries) == CollectQueue(GlobId(entries))

\* parse_queue_files on an existing directory
parse_queue_files(entries) == SortByTime(CollectQueue(GlobId(entries)))

----------------------------------------------------------------------------
(* plot_coverage_fast.py: the checkpoints of get_cumulative_coverage *)

\* line 74
SamplePointsLiteral(n) == <<0, 10, 20, 50, 100, 200, 500, 1000, n - 1>>

\* line 75
SamplePointsInRange(n) ==
    SelectSeq(SamplePointsLiteral(n), LAMBDA i : i < n)

\* lines 78-79
AlwaysAddLast(points, n) ==
    IF \E k \in 1..Len(points) : points[k] = n - 1
    THEN points
    ELSE Append(points, n - 1)

SamplePoints(n) == AlwaysAddLast(SamplePointsInRange(n), n)

----------------------------------------------------------------------------
(* plot_coverage_fast.py: parse_coverage_report *)

TotalMarker == <<"T", "O", "T", "A", "L">>

\* str.strip()
RECURSIVE LStrip(_)
LStrip(s) ==
    IF s # <<>> /\ Head(s) \in Whitespace THEN LStrip(Tail(s)) ELSE s

RECURSIVE RStrip(_)
RStrip(s) ==
    IF s # <<>> /\ s[Len(s)] \in Whitespace THEN RStrip(Front(s)) ELSE s

Strip(s) == RStrip(LStrip(s))

\* str.split('\n'): every separator cuts, empty pieces are kept
RECURSIVE SplitLines(_)
SplitLines(s) ==
    IF \E i \in 1..Len(s) : s[i] = "\n"
    THEN LET i == CHOOSE j \in 1..Len(s) :
                     s[j] = "\n" /\ \A k \in 1..(j - 1) : s[k] # "\n"
         IN  <<SubSeq(s, 1, i - 1)>> \o SplitLines(SubSeq(s, i + 1, Len(s)))
    ELSE <<s>>

\* str.split(): cut at runs of whitespace, no empty pieces
RECURSIVE SplitFields(_)
SplitFields(s) ==
    LET t == LStrip(s)
    IN  IF t = <<>> THEN <<>>
        ELSE LET e == CHOOSE j \in 1..Len(t) :
                         /\ \A k \in 1..j : t[k] \notin Whitespace
                         /\ j = Len(t) \/ t[j + 1] \in Whitespace
             IN  <<SubSeq(t, 1, e)>> \o SplitFields(SubSeq(t, e + 1, Len(t)))

\* int(field) succeeds: an optional sign and at least one digit
IsIntLiteral(f) ==
    LET body == IF f # <<>> /\ f[1] \in {"-", "+"} THEN Tail(f) ELSE f
    IN  body # <<>> /\ \A k \in 1..Len(body) : body[k] \in Digits

IntLiteral(f) ==
    IF f[1] = "-" THEN 0 - DigitsToInt(Tail(f))
    ELSE IF f[1] = "+" THEN DigitsToInt(Tail(f))
    ELSE DigitsToInt(f)

MinParts == 13

\* lines 129-138 for one line: does the line produce the return value
LineReturns(line) ==
    /\ StartsWith(line, TotalMarker)
    /\ LET parts == SplitFields(line)
       IN  /\ Len(parts) >= MinParts
           /\ IsIntLiteral(parts[11])
           /\ IsIntLiteral(parts[12])

\* line 135 returning the missed count in place of the covered count
LineValueMissed(line) ==
    LET parts == SplitFields(line)
    IN  <<IntLiteral(parts[12]), IntLiteral(parts[11])>>

\* lines 133-136: (branches_covered, branches_total)
LineValue(line) ==
    LET parts == SplitFields(line)
        branches_total == IntLiteral(parts[11])
        branches_missed == IntLiteral(parts[12])
    IN  <<branches_total - branches_missed, branches_total>>

\* the loop over reversed(lines), from line k down to the first
RECURSIVE ScanReversed(_, _)
ScanReversed(lines, k) ==
    IF k = 0 THEN <<0, 0>>
    ELSE IF LineReturns(lines[k]) THEN LineValue(lines[k])
    ELSE ScanReversed(lines, k - 1)

parse_coverage_report(text) ==
    LET lines == SplitLines(Strip(text))
    IN  ScanReversed(lines, Len(lines))

----------------------------------------------------------------------------
(* Bounds and the inputs drawn from them *)

MaxRuns == 2        \* runs on the command line
MaxBranches == 2    \* branches of the harness binary
MaxProfiles == 1100 \* profiles of the checkpoint specification
MaxDirSize == 2     \* entries of a scanned queue directory
MaxReportLines == 2 \* lines of a parsed report
MaxCorpus == 2      \* entries of the seed corpus
MaxOutLen == 2      \* characters of the encoder's standard output

RunNames == <<"out1", "out2", "out3", "out4">>
ShiftValues == {-2, 3}

NoDir == [exists |-> FALSE, entries |-> {}]
Dir(S) == [exists |-> TRUE, entries |-> S]

\* queue entries as AFL++ names them, and two that are not queue entries
QA == IdPrefix \o <<"0", ",">> \o TimeToken \o <<"7", "0", "0", "0">>
QB == IdPrefix \o <<"1", ",">> \o TimeToken \o <<"0">>
QC == IdPrefix \o <<"2", ",">> \o TimeToken \o <<"7", "0", "0">>
QN == IdPrefix \o <<"3">>
QX == <<".", "s", "t", "a", "t", "e">>

\* the directories of a single analysed run
RunDirs == {NoDir} \cup {Dir(S) : S \in SUBSET {QA, QB, QC, QN, QX}}

\* the directories of the runs of a comparison
CompareDirs == {NoDir, Dir({QX}), Dir({QA, QB, QN}), Dir({QA, QB, QC})}

\* --time-shifts: absent, or a list of integers
ShiftArgs(k) ==
    {[given |-> FALSE, list |-> <<>>]} \cup
    {[given |-> TRUE, list |-> l] :
        l \in UNION {[1..m -> ShiftValues] : m \in 1..k}}

----------------------------------------------------------------------------
(* plot_coverage_fast.py: main and get_cumulative_coverage *)

\* lines 196-200: dict(zip(runs, time_shifts_list)), or every run at 0
TimeShiftsDict(rs, arg) ==
    IF arg.given
    THEN LET n == IF Len(arg.list) < Len(rs) THEN Len(arg.list) ELSE Len(rs)
         IN  [r \in {rs[i] : i \in 1..n} |->
                 arg.list[CHOOSE i \in 1..n :
                             rs[i] = r /\ \A j \in (i + 1)..n : rs[j] # r]]
    ELSE [r \in {rs[i] : i \in 1..Len(rs)} |-> 0]

\* lines 109-113, in milliseconds
AdjustedTime(time_ms, shift) ==
    LET adjusted_time == time_ms + 1000 * shift
    IN  IF adjusted_time < 1000 THEN 1000 ELSE adjusted_time

\* one row of llvm-cov report: name, regions, functions, lines, branches
ReportRow(name, total, missed) ==
    Join(<<name, <<"1">>, <<"0">>, <<"-">>, <<"1">>, <<"0">>, <<"-">>,
           <<"1">>, <<"0">>, <<"-">>, total, missed, <<"-">>>>, <<" ">>)

SourceRow == ReportRow(<<"x", ".", "c">>, <<"0">>, <<"0">>)

\* the report of a database that covers c of the binary's branches
GoodReport(c) ==
    Join(<<SourceRow,
           ReportRow(TotalMarker, IntToText(MaxBranches),
                     IntToText(MaxBranches - c))>>, <<"\n">>) \o <<"\n">>

\* the same report cut short inside the aggregate row
TruncatedReport(c) ==
    LET text == GoodReport(c) IN SubSeq(text, 1, Len(text) - 5)

\* what llvm-cov report may print for a database covering c branches
ReportTexts(c) == {GoodReport(c), TruncatedReport(c), <<>>}

Run == runs[run_idx]

SetItem(dict, key, value) ==
    [k \in DOMAIN dict \cup {key} |-> IF k = key THEN value ELSE dict[k]]

\* line 219 outside the try block: KeyError ends the tool
RunKeyError ==
    /\ pc = "main_loop"
    /\ run_idx <= Len(runs)
    /\ Run \notin DOMAIN time_shifts
    /\ pc' = "crashed"
    /\ UNCHANGED <<parseVars, seedVars,
                   runs, time_shifts, fs, run_idx, time_shift, attempted,
                   runs_data, queue_files, profraw_files, sample_points,
                   sample_pos, merged_cov, reports, results, tempfiles>>

\* lines 213-223, 238-242: parse_queue_files raises FileNotFoundError
RunQueueMissing ==
    /\ pc = "main_loop"
    /\ run_idx <= Len(runs)
    /\ Run \in DOMAIN time_shifts
    /\ ~fs[Run].exists
    /\ time_shift' = time_shifts[Run]
    /\ attempted' = Append(attempted, Run)
    /\ run_idx' = run_idx + 1
    /\ UNCHANGED <<parseVars, seedVars,
                   pc, runs, time_shifts, fs, runs_data, queue_files,
                   profraw_files, sample_points, sample_pos, merged_cov,
                   reports, results, tempfiles>>

\* lines 213-225, 238-242: queue_files[0] raises IndexError
RunQueueEmpty ==
    /\ pc = "main_loop"
    /\ run_idx <= Len(runs)
    /\ Run \in DOMAIN time_shifts
    /\ fs[Run].exists
    /\ parse_queue_files(fs[Run].entries) = <<>>
    /\ time_shift' = time_shifts[Run]
    /\ attempted' = Append(attempted, Run)
    /\ queue_files' = <<>>
    /\ run_idx' = run_idx + 1
    /\ UNCHANGED <<parseVars, seedVars,
                   pc, runs, time_shifts, fs, runs_data, profraw_files,
                   sample_points, sample_pos, merged_cov, reports, results,
                   tempfiles>>

\* lines 213-236 when no replay left a profile: the sampler returns []
RunNoProfiles ==
    /\ pc = "main_loop"
    /\ run_idx <= Len(runs)
    /\ Run \in DOMAIN time_shifts
    /\ fs[Run].exists
    /\ parse_queue_files(fs[Run].entries) # <<>>
    /\ time_shift' = time_shifts[Run]
    /\ attempted' = Append(attempted, Run)
    /\ queue_files' = parse_queue_files(fs[Run].entries)
    /\ profraw_files' = 0
    /\ sample_points' = <<>>
    /\ sample_pos' = 0
    /\ results' = <<>>
    /\ reports' = <<>>
    /\ runs_data' = SetItem(runs_data, Run, <<>>)
    /\ run_idx' = run_idx + 1
    /\ UNCHANGED <<parseVars, seedVars,
                   pc, runs, time_shifts, fs, merged_cov, tempfiles>>

\* lines 213-232 and 65-81: the queue is replayed, n replays leave a
\* profile, and the sampler chooses its checkpoints
RunCollect ==
    /\ pc = "main_loop"
    /\ run_idx <= Len(runs)
    /\ Run \in DOMAIN time_shifts
    /\ fs[Run].exists
    /\ parse_queue_files(fs[Run].entries) # <<>>
    /\ time_shift' = time_shifts[Run]
    /\ attempted' = Append(attempted, Run)
    /\ queue_files' = parse_queue_files(fs[Run].entries)
    /\ \E n \in 1..Len(queue_files') :
          /\ profraw_files' = n
          /\ sample_points' = SamplePoints(n)
    /\ sample_pos' = 1
    /\ results' = <<>>
    /\ reports' = <<>>
    /\ merged_cov' = 0
    /\ pc' = "merge"
    /\ UNCHANGED <<parseVars, seedVars,
                   runs, time_shifts, fs, run_idx, runs_data, tempfiles>>

SampleIdx == sample_points[sample_pos]

\* lines 83-94: llvm-profdata merge writes temp_<sample_idx>.profdata;
\* a longer prefix covers at least what the shorter one covers
Merge ==
    /\ pc = "merge"
    /\ tempfiles' = tempfiles \cup {SampleIdx}
    /\ \E c \in merged_cov..MaxBranches :
          /\ sample_pos > 1 /\ SampleIdx = sample_points[sample_pos - 1]
                => c = merged_cov
          /\ merged_cov' = c
    /\ pc' = "report"
    /\ UNCHANGED <<parseVars, seedVars,
                   runs, time_shifts, fs, run_idx, time_shift, attempted,
                   runs_data, queue_files, profraw_files, sample_points,
                   sample_pos, reports, results>>

\* line 94 raises CalledProcessError, caught at line 238
MergeFail ==
    /\ pc = "merge"
    /\ run_idx' = run_idx + 1
    /\ pc' = "main_loop"
    /\ UNCHANGED <<parseVars, seedVars,
                   runs, time_shifts, fs, time_shift, attempted, runs_data,
                   queue_files, profraw_files, sample_points, sample_pos,
                   merged_cov, reports, results, tempfiles>>

\* lines 96-120, and 122, 233-236 after the last checkpoint
Report ==
    /\ pc = "report"
    /\ \E text \in ReportTexts(merged_cov) :
          LET parsed == parse_coverage_report(text)
              time_ms == queue_files[SampleIdx + 1].time
              sample == [time |-> AdjustedTime(time_ms, time_shift),
                         covered |-> parsed[1],
                         total |-> parsed[2]]
          IN  /\ reports' = Append(reports, text)
              /\ results' = Append(results, sample)
    /\ tempfiles' = tempfiles \ {SampleIdx}
    /\ IF sample_pos < Len(sample_points)
       THEN /\ sample_pos' = sample_pos + 1
            /\ pc' = "merge"
            /\ UNCHANGED <<runs_data, run_idx>>
       ELSE /\ runs_data' = SetItem(runs_data, Run, results')
            /\ run_idx' = run_idx + 1
            /\ pc' = "main_loop"
            /\ UNCHANGED sample_pos
    /\ UNCHANGED <<parseVars, seedVars,
                   runs, time_shifts, fs, time_shift, attempted, queue_files,
                   profraw_files, sample_points, merged_cov>>

\* line 102 raises CalledProcessError, caught at line 238: line 120 is
\* not reached
ReportFail ==
    /\ pc = "report"
    /\ run_idx' = run_idx + 1
    /\ pc' = "main_loop"
    /\ UNCHANGED <<parseVars, seedVars,
                   runs, time_shifts, fs, time_shift, attempted, runs_data,
                   queue_files, profraw_files, sample_points, sample_pos,
                   merged_cov, reports, results, tempfiles>>

\* lines 244-249
Finish ==
    /\ pc = "main_loop"
    /\ run_idx > Len(runs)
    /\ pc' = IF DOMAIN runs_data # {} THEN "plotted" ELSE "no_data"
    /\ UNCHANGED <<parseVars, seedVars,
                   runs, time_shifts, fs, run_idx, time_shift, attempted,
                   runs_data, queue_files, profraw_files, sample_points,
                   sample_pos, merged_cov, reports, results, tempfiles>>

\* the sampler's and the loop's variables before the first run
CovStart ==
    /\ run_idx = 1
    /\ time_shift = 0
    /\ attempted = <<>>
    /\ runs_data = [r \in {} |-> <<>>]
    /\ queue_files = <<>>
    /\ profraw_files = 0
    /\ sample_points = <<>>
    /\ sample_pos = 0
    /\ merged_cov = 0
    /\ reports = <<>>
    /\ results = <<>>
    /\ tempfiles = {}

\* the plotter is not running
IdleCov ==
    /\ runs = <<>>
    /\ time_shifts = [r \in {} |-> 0]
    /\ fs = [r \in {} |-> NoDir]
    /\ CovStart

IdleParse ==
    /\ report_text = <<>>
    /\ parse_ret = <<0, 0>>

----------------------------------------------------------------------------
(* seed.py *)

\* bytes.decode().splitlines(): cut at line ends, no empty last piece
SplitLinesPy(text) ==
    LET pieces == SplitLines(text)
    IN  IF pieces[Len(pieces)] = <<>> THEN Front(pieces) ELSE pieces

\* the encoder's output whatever its exit code (lines 24-28 missing)
run_encoder_unchecked(returncode, stdout) == SplitLinesPy(stdout)

\* lines 15-29, for a completed process
run_encoder(returncode, stdout) ==
    IF returncode # 0 THEN <<>> ELSE SplitLinesPy(stdout)

\* line 51: path.name.replace(":", "_")
SafeName(name) ==
    [i \in 1..Len(name) |-> IF name[i] = ":" THEN "_" ELSE name[i]]

\* line 53 without the trailing newline
OutTextNoNewline(outputs) == Join(outputs, <<"\n">>)

\* line 53: "\n".join(outputs) + "\n"
OutText(outputs) == Join(outputs, <<"\n">>) \o <<"\n">>

SA == <<"i", "d", ":", "0">>
SB == <<"i", "d", "_", "0">>
SC == <<"i", "d", ":", "1">>

\* the entries a corpus directory is drawn from
CorpusEntries ==
    {[name |-> SA, is_file |-> TRUE], [name |-> SB, is_file |-> TRUE],
     [name |-> SC, is_file |-> TRUE], [name |-> QX, is_file |-> FALSE]}

Corpora == {S \in SUBSET CorpusEntries : Cardinality(S) <= MaxCorpus}

ReturnCodes == {0, 1}

Stdouts == UNION {[1..n -> {"a", "\n"}] : n \in 0..MaxOutLen}

NoProc == [path |-> <<>>, returncode |-> 0, stdout |-> <<>>]

Path == paths[path_idx]

IsFile(name) == \E e \in corpus : e.name = name /\ e.is_file

\* lines 33-42: the checks pass, OUTPUT_DIR is made, the corpus is listed
SeedStart ==
    /\ pc = "seed_start"
    /\ paths' = SortedNames({e.name : e \in corpus})
    /\ path_idx' = 1
    /\ total_written' = 0
    /\ file_written' = 0
    /\ pc' = "seed_loop"
    /\ UNCHANGED <<covData, parseVars,
                   corpus, proc, out_files, write_log>>

\* lines 43-44
SeedSkip ==
    /\ pc = "seed_loop"
    /\ path_idx <= Len(paths)
    /\ ~IsFile(Path)
    /\ path_idx' = path_idx + 1
    /\ UNCHANGED <<covData, parseVars,
                   pc, corpus, paths, proc, out_files, write_log,
                   total_written, file_written>>

\* lines 46-55: one corpus file through the encoder
SeedProcess ==
    /\ pc = "seed_loop"
    /\ path_idx <= Len(paths)
    /\ IsFile(Path)
    /\ \E returncode \in ReturnCodes, stdout \in Stdouts :
          LET outputs == run_encoder(returncode, stdout)
              fname == SafeName(Path)
          IN  /\ proc' = [path |-> Path, returncode |-> returncode,
                          stdout |-> stdout]
              /\ IF outputs = <<>>
                 THEN UNCHANGED <<out_files, write_log, total_written,
                                  file_written>>
                 ELSE /\ out_files' = SetItem(out_files, fname,
                                              OutText(outputs))
                      /\ write_log' = Append(write_log, fname)
                      /\ total_written' = total_written + Len(outputs)
                      /\ file_written' = file_written + 1
    /\ path_idx' = path_idx + 1
    /\ UNCHANGED <<covData, parseVars,
                   pc, corpus, paths>>

\* lines 57-62
SeedFinish ==
    /\ pc = "seed_loop"
    /\ path_idx > Len(paths)
    /\ pc' = "seed_done"
    /\ UNCHANGED <<covData, parseVars,
                   corpus, paths, path_idx, proc, out_files, write_log,
                   total_written, file_written>>

IdleSeed ==
    /\ corpus = {}
    /\ paths = <<>>
    /\ path_idx = 0
    /\ proc = NoProc
    /\ out_files = [f \in {} |-> <<>>]
    /\ write_log = <<>>
    /\ total_written = 0
    /\ file_written = 0

----------------------------------------------------------------------------
(* Specifications *)

\* plot_coverage_fast.py comparing up to MaxRuns runs
Init ==
    /\ pc = "main_loop"
    /\ \E k \in 1..MaxRuns :
          /\ runs = SubSeq(RunNames, 1, k)
          /\ \E arg \in ShiftArgs(k) : time_shifts = TimeShiftsDict(runs, arg)
          /\ fs \in [{RunNames[i] : i \in 1..k} -> CompareDirs]
    /\ CovStart
    /\ IdleParse
    /\ IdleSeed

Next ==
    \/ RunKeyError
    \/ RunQueueMissing
    \/ RunQueueEmpty
    \/ RunNoProfiles
    \/ RunCollect
    \/ Merge
    \/ MergeFail
    \/ Report
    \/ ReportFail
    \/ Finish

Spec == Init /\ [][Next]_vars

\* plot_coverage_fast.py analysing one run
InitRun ==
    /\ pc = "main_loop"
    /\ runs = SubSeq(RunNames, 1, 1)
    /\ \E arg \in ShiftArgs(1) : time_shifts = TimeShiftsDict(runs, arg)
    /\ fs \in [{RunNames[1]} -> RunDirs]
    /\ CovStart
    /\ IdleParse
    /\ IdleSeed

\* with one run and a shift list of at least one entry, line 219 finds its key
NextRun ==
    \/ RunQueueMissing
    \/ RunQueueEmpty
    \/ RunNoProfiles
    \/ RunCollect
    \/ Merge
    \/ MergeFail
    \/ Report
    \/ ReportFail
    \/ Finish

SpecRun == InitRun /\ [][NextRun]_vars

\* seed.py
InitSeed ==
    /\ pc = "seed_start"
    /\ corpus \in Corpora
    /\ paths = <<>>
    /\ path_idx = 0
    /\ proc = NoProc
    /\ out_files = [f \in {} |-> <<>>]
    /\ write_log = <<>>
    /\ total_written = 0
    /\ file_written = 0
    /\ IdleCov
    /\ IdleParse

NextSeed ==
    \/ SeedStart
    \/ SeedSkip
    \/ SeedProcess
    \/ SeedFinish

SpecSeed == InitSeed /\ [][NextSeed]_vars

\* the checkpoint selection of get_cumulative_coverage, for every number
\* of profiles up to MaxProfiles
InitCheckpoints ==
    /\ pc = "select"
    /\ profraw_files \in 1..MaxProfiles
    /\ runs = <<>>
    /\ time_shifts = [r \in {} |-> 0]
    /\ fs = [r \in {} |-> NoDir]
    /\ run_idx = 1
    /\ time_shift = 0
    /\ attempted = <<>>
    /\ runs_data = [r \in {} |-> <<>>]
    /\ queue_files = <<>>
    /\ sample_points = <<>>
    /\ sample_pos = 0
    /\ merged_cov = 0
    /\ reports = <<>>
    /\ results = <<>>
    /\ tempfiles = {}
    /\ IdleParse
    /\ IdleSeed

\* lines 74-75
SelectInRange ==
    /\ pc = "select"
    /\ sample_points' = SamplePointsInRange(profraw_files)
    /\ pc' = "add_last"
    /\ UNCHANGED <<parseVars, seedVars, runs, time_shifts, fs, run_idx,
                   time_shift, attempted, runs_data, queue_files,
                   profraw_files, sample_pos, merged_cov, reports, results,
                   tempfiles>>

\* lines 77-79
SelectLast ==
    /\ pc = "add_last"
    /\ sample_points' = AlwaysAddLast(sample_points, profraw_files)
    /\ pc' = "selected"
    /\ UNCHANGED <<parseVars, seedVars, runs, time_shifts, fs, run_idx,
                   time_shift, attempted, runs_data, queue_files,
                   profraw_files, sample_pos, merged_cov, reports, results,
                   tempfiles>>

NextCheckpoints ==
    \/ SelectInRange
    \/ SelectLast

SpecCheckpoints == InitCheckpoints /\ [][NextCheckpoints]_vars

\* the names of the scanned directories: up to three pieces each
NamePieces == {IdPrefix, TimeToken, <<"7">>, <<"x">>}

NamePool == {Concat(p) : p \in UNION {[1..n -> NamePieces] : n \in 1..3}}

RECURSIVE SubsetsUpTo(_, _)
SubsetsUpTo(S, k) ==
    IF k = 0 THEN {{}}
    ELSE LET smaller == SubsetsUpTo(S, k - 1)
         IN  smaller \cup {T \cup {x} : T \in smaller, x \in S}

ScanDirs == {NoDir} \cup {Dir(S) : S \in SubsetsUpTo(NamePool, MaxDirSize)}

\* parse_queue_files on one directory
InitQueue ==
    /\ pc = "scan"
    /\ runs = SubSeq(RunNames, 1, 1)
    /\ time_shifts = TimeShiftsDict(runs, [given |-> FALSE, list |-> <<>>])
    /\ fs \in [{RunNames[1]} -> ScanDirs]
    /\ CovStart
    /\ IdleParse
    /\ IdleSeed

\* lines 13-15: the directory does not exist
ScanRaises ==
    /\ pc = "scan"
    /\ ~fs[Run].exists
    /\ pc' = "scan_raised"
    /\ UNCHANGED <<parseVars, seedVars, covData>>

\* lines 17-28
ScanQueue ==
    /\ pc = "scan"
    /\ fs[Run].exists
    /\ queue_files' = parse_queue_files(fs[Run].entries)
    /\ pc' = "scanned"
    /\ UNCHANGED <<parseVars, seedVars, runs, time_shifts, fs, run_idx,
                   time_shift, attempted, runs_data, profraw_files,
                   sample_points, sample_pos, merged_cov, reports, results,
                   tempfiles>>

NextQueue ==
    \/ ScanRaises
    \/ ScanQueue

SpecQueue == InitQueue /\ [][NextQueue]_vars

\* the lines a report is drawn from: rows of the table with numeric and
\* non-numeric branch columns, short rows, a blank and an indented row
ReportFields == {<<"3">>, <<"1">>, <<"-">>}

ReportLinePool ==
    {ReportRow(name, total, missed) :
        name \in {TotalMarker, <<"x", ".", "c">>},
        total \in ReportFields, missed \in ReportFields}
    \cup {TotalMarker,
          TotalMarker \o <<" ", "3", " ", "1">>,
          <<>>,
          <<" ">> \o ReportRow(TotalMarker, <<"3">>, <<"1">>)}

ReportInputs ==
    {Join(ls, <<"\n">>) :
        ls \in UNION {[1..n -> ReportLinePool] : n \in 0..MaxReportLines}}

\* parse_coverage_report on one report
InitReport ==
    /\ pc = "parse"
    /\ report_text \in ReportInputs
    /\ parse_ret = <<0, 0>>
    /\ IdleCov
    /\ IdleSeed

\* lines 124-140
ParseReport ==
    /\ pc = "parse"
    /\ parse_ret' = parse_coverage_report(report_text)
    /\ pc' = "parsed"
    /\ UNCHANGED <<covData, seedVars, report_text>>

NextReport ==
    \/ ParseReport

SpecReport == InitReport /\ [][NextReport]_vars

----------------------------------------------------------------------------
(* Properties *)

\* C1 (as claimed; SpecCheckpoints): for every n >= 1 profiles the
\* checkpoint list contains 0 and n-1, holds no index twice and is
\* strictly ascending.
C1_CheckpointsStrictlyAscending ==
    pc = "selected" =>
        /\ \E k \in 1..Len(sample_points) : sample_points[k] = 0
        /\ \E k \in 1..Len(sample_points) :
              sample_points[k] = profraw_files - 1
        /\ \A i, j \in 1..Len(sample_points) :
              i < j => sample_points[i] < sample_points[j]

\* llvm-cov printed the whole table, its aggregate row last
WholeReport(text) == \E c \in 0..MaxBranches : text = GoodReport(c)

\* C2 (as claimed; SpecRun): the branches-covered value never decreases
\* from one sample of a run to the next, unparseable reports included.
C2_CoveredNonDecreasing ==
    \A i \in 2..Len(results) : results[i - 1].covered <= results[i].covered

\* C2 (amended; SpecRun): among the samples of a run whose report ends
\* with a parseable aggregate row the branches-covered value never
\* decreases from one sample to a later one.
C2_ParsedCoveredNonDecreasing ==
    \A i, j \in 1..Len(results) :
        i < j /\ WholeReport(reports[i]) /\ WholeReport(reports[j])
            => results[i].covered <= results[j].covered

\* C2 witness: two parsed samples, the second covering more
C2_Witness ==
    /\ Len(results) = 2
    /\ WholeReport(reports[1])
    /\ WholeReport(reports[2])
    /\ results[1].covered < results[2].covered

TimesNonDecreasing(samples) ==
    \A i \in 1..Len(samples) :
        /\ samples[i].time >= 1000
        /\ i > 1 => samples[i - 1].time <= samples[i].time

\* C3 (SpecRun): the adjusted elapsed time of the samples of a run never
\* decreases from one sample to the next and is never below 1 second,
\* for every listing order of the queue and every time shift.
C3_TimeNonDecreasing ==
    /\ TimesNonDecreasing(results)
    /\ \A r \in DOMAIN runs_data : TimesNonDecreasing(runs_data[r])

\* C3 witness: the listing order of the queue (QA before QB) is not its
\* time order, the shift is negative, the first sample is clamped and the
\* second is later
C3_Witness ==
    /\ pc = "plotted"
    /\ {QA, QB} \subseteq fs[runs[1]].entries
    /\ time_shift < 0
    /\ Len(results) = 2
    /\ results[1].time = 1000
    /\ results[2].time > 1000

\* the name holds the token time:<digits> somewhere
CarriesTimeToken(name) == \E p \in 1..Len(name) : TimePatternAt(name, p)

ReturnedPaths == {queue_files[i].path : i \in 1..Len(queue_files)}

\* C4 (as claimed; SpecQueue): one pair for every entry whose name holds
\* the token time:<ms>, whatever the rest of the name is, and no other.
C4_EveryTokenEntryReturned ==
    pc = "scanned" =>
        LET carrying == {n \in fs[Run].entries : CarriesTimeToken(n)}
        IN  /\ ReturnedPaths = carrying
            /\ Len(queue_files) = Cardinality(carrying)

\* C4 (amended; SpecQueue): one pair for every entry whose name begins
\* with id: and holds the token time:<ms>, with the token's value as its
\* time, and no pair for any other entry.
C4_EveryIdTokenEntryReturned ==
    pc = "scanned" =>
        LET carrying == {n \in fs[Run].entries :
                            StartsWith(n, IdPrefix) /\ CarriesTimeToken(n)}
        IN  /\ ReturnedPaths = carrying
            /\ Len(queue_files) = Cardinality(carrying)

\* C4 witness: one entry is returned and one that holds the token but
\* does not begin with id: is left out
C4_Witness ==
    /\ pc = "scanned"
    /\ Len(queue_files) = 1
    /\ \E n \in fs[Run].entries :
          CarriesTimeToken(n) /\ ~StartsWith(n, IdPrefix)

\* the step of the loop of seed.py that runs the encoder on a file
EncoderStep ==
    /\ pc = "seed_loop"
    /\ path_idx <= Len(paths)
    /\ IsFile(Path)
    /\ path_idx' = path_idx + 1

\* C5 (SpecSeed): when the encoder exits non-zero for a file, no output
\* file is written, both counters keep their values and the loop goes on.
C5_FailedEncoderWritesNothing ==
    [][EncoderStep /\ proc'.returncode # 0
          => /\ out_files' = out_files
             /\ write_log' = write_log
             /\ file_written' = file_written
             /\ total_written' = total_written
             /\ pc' = "seed_loop"]_vars

\* C5 witness: the encoder failed after printing output, and a file is
\* left to process
C5_Witness ==
    /\ pc = "seed_loop"
    /\ proc.returncode # 0
    /\ proc.stdout # <<>>
    /\ path_idx <= Len(paths)
    /\ IsFile(Path)

\* the standard-output lines newline-joined with a trailing newline
ExpectedText(stdout) ==
    IF stdout # <<>> /\ stdout[Len(stdout)] = "\n"
    THEN stdout
    ELSE stdout \o <<"\n">>

Written(name, stdout) ==
    /\ SafeName(name) \in DOMAIN out_files'
    /\ out_files'[SafeName(name)] = ExpectedText(stdout)

\* C6 (as claimed; SpecSeed): for every file for which the encoder exits
\* with code zero the output file is written with the encoder's lines,
\* for every output including an empty one.
C6_EveryOutputWritten ==
    [][EncoderStep /\ proc'.returncode = 0
          => Written(Path, proc'.stdout)]_vars

\* C6 (amended; SpecSeed): for every file for which the encoder exits
\* with code zero and prints at least one character, the output file
\* named after the source file is written with the encoder's lines
\* newline-joined and a trailing newline.
C6_NonEmptyOutputWritten ==
    [][EncoderStep /\ proc'.returncode = 0 /\ proc'.stdout # <<>>
          => Written(Path, proc'.stdout)]_vars

\* C6 witness: output without a final newline was written under a name
\* that differs from the source name
C6_Witness ==
    /\ proc.returncode = 0
    /\ proc.stdout # <<>>
    /\ proc.stdout[Len(proc.stdout)] # "\n"
    /\ SafeName(proc.path) # proc.path
    /\ SafeName(proc.path) \in DOMAIN out_files
    /\ out_files[SafeName(proc.path)] = proc.stdout \o <<"\n">>

\* C7 (as claimed; SpecSeed): no output path is written twice, and at the
\* end the number of output files equals the written-file counter.
C7_NoPathWrittenTwice ==
    /\ \A i, j \in 1..Len(write_log) : i < j => write_log[i] # write_log[j]
    /\ pc = "seed_done" => Cardinality(DOMAIN out_files) = file_written

\* C8 (as claimed; Spec): whatever happens to a run, every run of the
\* list is attempted, in list order.
C8_EveryRunAttempted ==
    pc \in {"plotted", "no_data", "crashed"} => attempted = runs

\* C9 (as claimed; Spec): at most one temporary merged database is on
\* disk at any time, failed merges and reports included.
C9_AtMostOneTempDatabase == Cardinality(tempfiles) <= 1

\* what the last line beginning with TOTAL alone decides
LastTotalLineResult(text) ==
    LET lines == SplitLines(Strip(text))
        marked == {k \in 1..Len(lines) : StartsWith(lines[k], TotalMarker)}
    IN  IF marked = {} THEN <<0, 0>>
        ELSE LET last == CHOOSE k \in marked : \A m \in marked : m <= k
             IN  IF LineReturns(lines[last]) THEN LineValue(lines[last])
                 ELSE <<0, 0>>

\* C10 (as claimed; SpecReport): the result is decided by the last line
\* beginning with TOTAL alone: (0, 0) if that line is short or its branch
\* columns are not numbers, whatever the earlier lines hold, and (0, 0)
\* if no line begins with TOTAL.
C10_LastTotalLineDecides ==
    pc = "parsed" => parse_ret = LastTotalLineResult(report_text)

====
